---- MODULE Spec2Model ----
(***************************************************************************)
(* The afterChange localization hook, aiLocalizeCollection, with the       *)
(* record store, the LLM client and the host framework that re-fires the   *)
(* hook after every write.                                                 *)
(*                                                                         *)
(* JavaScript values are modelled by records of one shape:                 *)
(*   k      "null" (null/undefined), "str", "arr", "obj", "map"            *)
(*   s      the characters of a string (k = "str")                         *)
(*   items  the elements of an array (k = "arr"), each a node              *)
(*   root   the root property of an object (k = "obj"): <<>> or <<node>>   *)
(*   m      a locale -> value mapping (k = "map"), the all-locale shape    *)
(* A node is [type, text, children]: type "" stands for an absent type,    *)
(* text and children are <<>> when absent and <<x>> when present.          *)
(* Strings are sequences of one-character strings.                         *)
(***************************************************************************)
EXTENDS Integers, Sequences, FiniteSets, TLC

VARIABLES
  cfg,       \* the registration and the framework's localization config
  store,     \* the record in the record store, every locale of every field
  stack,     \* the running hook invocations, the innermost last
  llmCalls,  \* per locale, the LLM calls the current change event has caused
  writes,    \* per locale, the update calls the current change event has caused
  reads,     \* the findByID calls the current change event has caused
  failed,    \* the locales whose LLM call / whose write failed in the current event
  applied,   \* per locale, the patch the store applied in the current event
  hist,      \* what the previous pass achieved and whether the record changed since
  edits      \* the number of edits by other actors so far

vars == <<cfg, store, stack, llmCalls, writes, reads, failed, applied, hist, edits>>

\* ---------------------------------------------------------------- bounds
MaxEdits == 1
MaxDepth == 3

\* ---------------------------------------------------------------- strings
NL == "\n"
SP == " "
Whitespace == {SP, NL}

RECURSIVE TrimStart(_)
TrimStart(s) ==
  IF s # <<>> /\ Head(s) \in Whitespace THEN TrimStart(Tail(s)) ELSE s

RECURSIVE TrimEnd(_)
TrimEnd(s) ==
  IF s # <<>> /\ s[Len(s)] \in Whitespace THEN TrimEnd(SubSeq(s, 1, Len(s) - 1)) ELSE s

\* String.prototype.trim
Trim(s) == TrimEnd(TrimStart(s))

\* the length of the run of newlines s starts with
RECURSIVE NewlineRun(_)
NewlineRun(s) ==
  IF s # <<>> /\ Head(s) = NL THEN 1 + NewlineRun(Tail(s)) ELSE 0

\* a replacement that leaves every run of newlines as it is
CollapseNewlines_Keep(s) == s

\* .replace(/\n{3,}/g, '\n\n')
RECURSIVE CollapseNewlines(_)
CollapseNewlines(s) ==
  IF s = <<>> THEN <<>>
  ELSE LET n == NewlineRun(s) IN
       IF n >= 3 THEN <<NL, NL>> \o CollapseNewlines(SubSeq(s, n + 1, Len(s)))
       ELSE IF n >= 1 THEN SubSeq(s, 1, n) \o CollapseNewlines(SubSeq(s, n + 1, Len(s)))
       ELSE <<Head(s)>> \o CollapseNewlines(Tail(s))

\* Array.prototype.join over strings
RECURSIVE Join(_, _)
Join(parts, sep) ==
  IF parts = <<>> THEN <<>>
  ELSE IF Len(parts) = 1 THEN parts[1]
  ELSE parts[1] \o sep \o Join(Tail(parts), sep)

\* ---------------------------------------------------------------- values
NoMap == <<>>
Null == [k |-> "null", s |-> <<>>, items |-> <<>>, root |-> <<>>, m |-> NoMap]
Str(s) == [k |-> "str", s |-> s, items |-> <<>>, root |-> <<>>, m |-> NoMap]
Arr(items) == [k |-> "arr", s |-> <<>>, items |-> items, root |-> <<>>, m |-> NoMap]
Obj(root) == [k |-> "obj", s |-> <<>>, items |-> <<>>, root |-> root, m |-> NoMap]
LocMap(m) == [k |-> "map", s |-> <<>>, items |-> <<>>, root |-> <<>>, m |-> m]

TextNode(t) == [type |-> "text", text |-> <<t>>, children |-> <<>>]
Leaf(t) == [type |-> "", text |-> <<t>>, children |-> <<>>]
Elem(type, kids) == [type |-> type, text |-> <<>>, children |-> <<kids>>]
Bare(type) == [type |-> type, text |-> <<>>, children |-> <<>>]

IsString(v) == v.k = "str"
IsArray(v) == v.k = "arr"
IsNullish(v) == v.k = "null"
\* typeof v === 'object' && v !== null
IsObject(v) == v.k \in {"arr", "obj", "map"}

\* v[locale] for an object v
AtLocale(v, locale) ==
  IF v.k = "map" /\ locale \in DOMAIN v.m THEN v.m[locale] ELSE Null

\* ---------------------------------------------------------------- rich text
looksLikeSlate(val) ==
  IsArray(val) /\ \A i \in 1..Len(val.items) : val.items[i].type # ""

looksLikeLexical(val) ==
  val.k = "obj" /\ val.root # <<>> /\ val.root[1].type = "root"

RECURSIVE SlateCollect(_)
SlateCollect(node) ==
  IF node.text # <<>> THEN node.text[1]
  ELSE IF node.children # <<>>
    THEN Join([i \in 1..Len(node.children[1]) |-> SlateCollect(node.children[1][i])], <<>>)
    ELSE <<>>

slateToPlain(val) ==
  IF ~IsArray(val) THEN <<>>
  ELSE Trim(CollapseNewlines(
         Join([i \in 1..Len(val.items) |-> SlateCollect(val.items[i])], <<NL>>)))

RECURSIVE LexicalWalk(_)
LexicalWalk(nodes) ==
  Join([i \in 1..Len(nodes) |->
          LET n == nodes[i] IN
          IF n.type = "text" /\ n.text # <<>> THEN n.text[1]
          ELSE IF n.children # <<>> THEN LexicalWalk(n.children[1])
          ELSE IF n.type = "linebreak" THEN <<NL>>
          ELSE <<>>], <<>>)

lexicalToPlain(val) ==
  IF ~(val.k = "obj" /\ val.root # <<>> /\ val.root[1].children # <<>>) THEN <<>>
  ELSE Trim(CollapseNewlines(LexicalWalk(val.root[1].children[1])))

\* a replacement that gives every text node the translated text
RECURSIVE ReinjectNodes_EveryLeaf(_, _, _, _)
ReinjectNodes_EveryLeaf(nodes, dialect, t, seen) ==
  IF nodes = <<>> THEN [out |-> <<>>, seen |-> seen]
  ELSE LET n == Head(nodes)
           isText == IF dialect = "lexical" THEN n.type = "text" ELSE n.text # <<>>
           n1 == IF isText THEN [n EXCEPT !.text = <<t>>] ELSE n
           kids == IF n.children # <<>>
                     THEN ReinjectNodes_EveryLeaf(n.children[1], dialect, t, seen)
                     ELSE [out |-> <<>>, seen |-> seen]
           n2 == IF n.children # <<>> THEN [n1 EXCEPT !.children = <<kids.out>>] ELSE n1
           rest == ReinjectNodes_EveryLeaf(Tail(nodes), dialect, t, seen)
       IN [out |-> <<n2>> \o rest.out, seen |-> seen]

\* findTextNodes followed by the text replacement, on the cloned nodes: the
\* first text node in document order gets t, every later one the empty string
RECURSIVE ReinjectNodes(_, _, _, _)
ReinjectNodes(nodes, dialect, t, seen) ==
  IF nodes = <<>> THEN [out |-> <<>>, seen |-> seen]
  ELSE LET n == Head(nodes)
           isText == IF dialect = "lexical" THEN n.type = "text" ELSE n.text # <<>>
           n1 == IF isText THEN [n EXCEPT !.text = <<IF seen = 0 THEN t ELSE <<>>>>] ELSE n
           seen1 == IF isText THEN seen + 1 ELSE seen
           kids == IF n.children # <<>>
                     THEN ReinjectNodes(n.children[1], dialect, t, seen1)
                     ELSE [out |-> <<>>, seen |-> seen1]
           n2 == IF n.children # <<>> THEN [n1 EXCEPT !.children = <<kids.out>>] ELSE n1
           rest == ReinjectNodes(Tail(nodes), dialect, t, kids.seen)
       IN [out |-> <<n2>> \o rest.out, seen |-> rest.seen]

translateLexicalContent(source, translatedText) ==
  IF ~(source.k = "obj" /\ source.root # <<>>) THEN source
  ELSE LET root == source.root[1] IN
       IF root.children = <<>> THEN source
       ELSE Obj(<<[root EXCEPT !.children =
                     <<ReinjectNodes(root.children[1], "lexical", translatedText, 0).out>>]>>)

translateSlateContent(source, translatedText) ==
  IF ~IsArray(source) THEN source
  ELSE Arr(ReinjectNodes(source.items, "slate", translatedText, 0).out)

\* ---------------------------------------------------------------- schema walker
\* A schema field is [name, localized, type, fields, blocks]: name "" when the
\* field has none, fields <<>> or <<children>>, blocks <<>> or <<variants>>,
\* a variant being [slug, fields].
Field(name, localized, type) ==
  [name |-> name, localized |-> localized, type |-> type, fields |-> <<>>, blocks |-> <<>>]

TextTypes == {"text", "textarea", "richText"}

RECURSIVE Visit(_, _)
RECURSIVE VisitBlocks(_, _, _)
\* a walker that gives the children of every variant the path of the blocks field
VisitBlocks_NoSlug(blocks, path, hasName) ==
  IF blocks = <<>> THEN <<>>
  ELSE Visit(Head(blocks).fields, path) \o VisitBlocks(Tail(blocks), path, hasName)

VisitBlocks(blocks, path, hasName) ==
  IF blocks = <<>> THEN <<>>
  ELSE Visit(Head(blocks).fields, IF hasName THEN path \o "." \o Head(blocks).slug ELSE path)
         \o VisitBlocks(Tail(blocks), path, hasName)

Visit(arr, prefix) ==
  IF arr = <<>> THEN <<>>
  ELSE LET field == Head(arr)
           hasName == field.name # ""
           path == IF hasName
                     THEN (IF prefix # "" THEN prefix \o "." \o field.name ELSE field.name)
                     ELSE prefix
           own == IF hasName /\ field.localized = TRUE /\ field.type \in TextTypes
                    THEN <<[path |-> path, type |-> field.type]>> ELSE <<>>
           kids == IF field.fields # <<>> THEN Visit(field.fields[1], path) ELSE <<>>
           blks == IF field.blocks # <<>> THEN VisitBlocks(field.blocks[1], path, hasName) ELSE <<>>
       IN own \o kids \o blks \o Visit(Tail(arr), prefix)

detectLocalizedFieldsWithMeta(collection) == Visit(collection, "")

\* fields: the paths in walk order
FieldPaths(found) == [i \in 1..Len(found) |-> found[i].path]

\* meta.get(f)?.type: Map.set keeps the last type recorded for a path
MetaType(found, f) ==
  LET hits == {i \in 1..Len(found) : found[i].path = f} IN
  IF hits = {} THEN "" ELSE found[CHOOSE i \in hits : \A j \in hits : j <= i].type

\* ---------------------------------------------------------------- documents
\* A document maps top-level property names to values; a missing property reads
\* as undefined.
getByPath(doc, path) ==
  IF doc.k = "null" THEN Null
  ELSE IF path \in DOMAIN doc.props THEN doc.props[path] ELSE Null

\* ---------------------------------------------------------------- scoring
NonBlank(s) == Len(Trim(s)) > 0

ScoresField(val) ==
  \/ IsString(val) /\ NonBlank(val.s)
  \/ looksLikeSlate(val) /\ Len(slateToPlain(val)) > 0
  \/ looksLikeLexical(val) /\ Len(lexicalToPlain(val)) > 0

RECURSIVE contentScore(_, _, _)
contentScore(docAllLocales, fields, locale) ==
  IF fields = <<>> THEN 0
  ELSE LET v == getByPath(docAllLocales, Head(fields))
           val == IF IsObject(v) THEN AtLocale(v, locale) ELSE v
       IN (IF ScoresField(val) THEN 1 ELSE 0) + contentScore(docAllLocales, Tail(fields), locale)

\* Array.prototype.sort((a, b) => b[1] - a[1]) is stable: an entry moves in front
\* of the sorted entries it strictly beats only
RECURSIVE InsertByScore(_, _)
InsertByScore(sorted, e) ==
  IF sorted = <<>> THEN <<e>>
  ELSE IF e.score > Head(sorted).score THEN <<e>> \o sorted
  ELSE <<Head(sorted)>> \o InsertByScore(Tail(sorted), e)

RECURSIVE SortByScore(_)
SortByScore(entries) ==
  IF entries = <<>> THEN <<>>
  ELSE InsertByScore(SortByScore(SubSeq(entries, 1, Len(entries) - 1)), entries[Len(entries)])

\* ---------------------------------------------------------------- the pass
SeqToSet(q) == {q[i] : i \in 1..Len(q)}

\* a filter that keeps the dropped element
Filter_KeepAll(q, drop) == q

RECURSIVE Filter(_, _)
Filter(q, drop) ==
  IF q = <<>> THEN <<>>
  ELSE (IF Head(q) = drop THEN <<>> ELSE <<Head(q)>>) \o Filter(Tail(q), drop)

\* localesCfg.locales mapped to their codes
allLocales == cfg.locales

\* config.sourceLocale || localesCfg.defaultLocale || 'en'
defaultLocale ==
  IF cfg.sourceLocale # "" THEN cfg.sourceLocale
  ELSE IF cfg.defaultLocale # "" THEN cfg.defaultLocale
  ELSE "en"

\* config.targetLocales?.length ? config.targetLocales : allLocales
requestedTargets ==
  IF Len(cfg.targetLocales) > 0 THEN cfg.targetLocales ELSE allLocales

\* Object.entries(scores): one entry per locale, in the configured order
ScoreEntries(docAllLocales, fields) ==
  [i \in 1..Len(allLocales) |->
     [locale |-> allLocales[i], score |-> contentScore(docAllLocales, fields, allLocales[i])]]

\* scores[l] > 0, false for a locale that has no score
ScorePositive(entries, l) ==
  \E i \in 1..Len(entries) : entries[i].locale = l /\ entries[i].score > 0

\* Object.entries(scores).sort(...)[0]?.[0], "" standing for undefined
bestLocale(entries) ==
  IF entries = <<>> THEN "" ELSE SortByScore(entries)[1].locale

actualSourceLocale(entries) ==
  IF cfg.sourceLocale # ""
    THEN (IF ScorePositive(entries, cfg.sourceLocale)
            THEN cfg.sourceLocale
            ELSE IF bestLocale(entries) # "" THEN bestLocale(entries) ELSE defaultLocale)
    ELSE (IF ScorePositive(entries, bestLocale(entries))
            THEN bestLocale(entries)
            ELSE defaultLocale)

\* the value of field f in the source locale, as read at line 336
SourceVal(docAllLocales, f, src) ==
  LET v == getByPath(docAllLocales, f) IN IF IsObject(v) THEN AtLocale(v, src) ELSE v

\* sourceValues[f]
SourceText(val, kind) ==
  IF kind = "richText" /\ looksLikeSlate(val) THEN slateToPlain(val)
  ELSE IF kind = "richText" /\ looksLikeLexical(val) THEN lexicalToPlain(val)
  ELSE IF IsString(val) THEN val.s
  ELSE <<>>

\* sourceRichTextStructures[f]; type "" when none was stored
SourceStructure(val, kind) ==
  IF kind = "richText" /\ looksLikeSlate(val) THEN [type |-> "slate", structure |-> val]
  ELSE IF kind = "richText" /\ looksLikeLexical(val) THEN [type |-> "lexical", structure |-> val]
  ELSE [type |-> "", structure |-> Null]

\* an emptiness test that takes every string for empty
IsEmptyIn_AnyString(val, kind) == IsNullish(val) \/ IsString(val)

\* the emptiness test of lines 363-376
IsEmptyIn(val, kind) ==
  IF kind = "richText" THEN
    IF IsNullish(val) THEN TRUE
    ELSE IF looksLikeSlate(val) THEN Len(Trim(slateToPlain(val))) = 0
    ELSE IF looksLikeLexical(val) THEN Len(Trim(lexicalToPlain(val))) = 0
    ELSE IF IsArray(val) THEN Len(val.items) = 0
    ELSE IF IsString(val) THEN Len(Trim(val.s)) = 0
    ELSE TRUE
  ELSE
    \/ IsNullish(val)
    \/ IsString(val) /\ Trim(val.s) = <<>>
    \/ IsArray(val) /\ Len(val.items) = 0

\* a read that falls back to the default locale's value when the target
\* locale has none
TargetVal_Fallback(docAllLocales, f, locale) ==
  LET v == getByPath(docAllLocales, f) IN
  IF ~IsObject(v) THEN Null
  ELSE IF IsNullish(AtLocale(v, locale)) THEN AtLocale(v, cfg.defaultLocale)
  ELSE AtLocale(v, locale)

\* the value of field f in a target locale, as read at line 361
TargetVal(docAllLocales, f, locale) ==
  LET v == getByPath(docAllLocales, f) IN IF IsObject(v) THEN AtLocale(v, locale) ELSE Null

RECURSIVE fieldsMissing(_, _, _, _)
fieldsMissing(docAllLocales, found, fields, locale) ==
  IF fields = <<>> THEN <<>>
  ELSE (IF IsEmptyIn(TargetVal(docAllLocales, Head(fields), locale), MetaType(found, Head(fields)))
          THEN <<Head(fields)>> ELSE <<>>)
       \o fieldsMissing(docAllLocales, found, Tail(fields), locale)

\* a work list that names every field for every target
toFill_EveryTarget(docAllLocales, found, targets) ==
  [k \in 1..Len(targets) |-> [locale |-> targets[k], fieldsMissing |-> FieldPaths(found)]]

RECURSIVE toFill(_, _, _)
toFill(docAllLocales, found, targets) ==
  IF targets = <<>> THEN <<>>
  ELSE LET missing == fieldsMissing(docAllLocales, found, FieldPaths(found), Head(targets)) IN
       (IF Len(missing) > 0 THEN <<[locale |-> Head(targets), fieldsMissing |-> missing]>> ELSE <<>>)
       \o toFill(docAllLocales, found, Tail(targets))

\* ---------------------------------------------------------------- record store
FieldNames == DOMAIN store.props

\* findByID(..., locale: 'all'): every localized field is a locale -> value mapping
AllLocaleDoc(st) ==
  [k |-> "doc", props |-> [f \in DOMAIN st.props |-> LocMap(st.props[f])], gate |-> st.gate]

\* the document as the host hands it over for one request locale
ScopedDoc(st, locale) ==
  [k |-> "doc", props |-> [f \in DOMAIN st.props |-> st.props[f][locale]], gate |-> st.gate]

\* a store that keeps a field that holds a string or a document
ApplyPatch_KeepContent(st, locale, patch) ==
  [st EXCEPT !.props =
     [f \in DOMAIN st.props |->
        IF f \in DOMAIN patch /\ locale \in DOMAIN st.props[f] /\ st.props[f][locale].k = "null"
          THEN [st.props[f] EXCEPT ![locale] = patch[f]]
          ELSE st.props[f]]]

\* update(..., locale, data: patch): only the given locale of the patched fields changes
ApplyPatch(st, locale, patch) ==
  [st EXCEPT !.props =
     [f \in DOMAIN st.props |->
        IF f \in DOMAIN patch /\ locale \in DOMAIN st.props[f]
          THEN [st.props[f] EXCEPT ![locale] = patch[f]]
          ELSE st.props[f]]]

\* ---------------------------------------------------------------- the hook
\* Request headers are a function from header names to values.
HEADER_GUARD == "x-ai-localize"
NoHeaders == <<>>
GuardHeaders == [h \in {HEADER_GUARD} |-> "1"]

\* the guard compared against another literal
GuardHit_WrongLiteral(headers) ==
  HEADER_GUARD \in DOMAIN headers /\ headers[HEADER_GUARD] = "true"

\* req.headers?.[HEADER_GUARD] === '1'
GuardHit(headers) ==
  HEADER_GUARD \in DOMAIN headers /\ headers[HEADER_GUARD] = "1"

\* the write's request headers with the spread only, the marker left out
WriteHeaders_NoMarker(headers) == headers

\* headers: { ...(req.headers || {}), [HEADER_GUARD]: '1' } on the write's request
WriteHeaders(headers) ==
  [h \in DOMAIN headers \cup {HEADER_GUARD} |-> IF h = HEADER_GUARD THEN "1" ELSE headers[h]]

\* config.skipIfSlateTarget ?? true
skipIfSlateTarget == cfg.skipIfSlateTarget # "false"

\* the gate compared against true instead of false
GateClosed_WhenTrue(doc) == cfg.guardFlagField # "" /\ doc.gate = "true"

\* config.guardFlagField && doc?.[config.guardFlagField] === false
GateClosed(doc) == cfg.guardFlagField # "" /\ doc.gate = "false"

\* typeof firstVal === 'string' || Array.isArray(firstVal) || looksLikeLexical(firstVal)
localizedView(firstVal) ==
  IsString(firstVal) \/ IsArray(firstVal) \/ looksLikeLexical(firstVal)

\* locale is req.locale: the locale the request is scoped to, "all" otherwise
NewFrame(headers, shape, locale, doc) ==
  [pc |-> "start", headers |-> headers, shape |-> shape, locale |-> locale, doc |-> doc,
   fetched |-> FALSE, planned |-> FALSE, docAll |-> doc, src |-> "",
   sourceValues |-> <<>>, structs |-> <<>>, toFill |-> <<>>, i |-> 0,
   proposed |-> <<>>, patch |-> <<>>, calls |-> 0]

\* lines 318-381 and the first loop iteration up to its LLM call
Proceed(frame, docAllLocales) ==
  LET found == detectLocalizedFieldsWithMeta(cfg.collection)
      fields == FieldPaths(found)
      entries == ScoreEntries(docAllLocales, fields)
      src == actualSourceLocale(entries)
      sv == [f \in SeqToSet(fields) |->
               SourceText(SourceVal(docAllLocales, f, src), MetaType(found, f))]
      st == [f \in SeqToSet(fields) |->
               SourceStructure(SourceVal(docAllLocales, f, src), MetaType(found, f))]
      targets == Filter(requestedTargets, src)
      fill == toFill(docAllLocales, found, targets)
      base == [frame EXCEPT !.planned = TRUE, !.docAll = docAllLocales, !.src = src,
                            !.sourceValues = sv, !.structs = st]
  IN IF ~(\E f \in SeqToSet(fields) : NonBlank(sv[f])) THEN [base EXCEPT !.pc = "return"]
     ELSE IF fill = <<>> THEN [base EXCEPT !.pc = "return"]
     ELSE [base EXCEPT !.pc = "llm", !.toFill = fill, !.i = 1, !.calls = @ + 1]

\* the handler from its entry to its first await or return (lines 287-316)
HookEntry(frame) ==
  LET fields == FieldPaths(detectLocalizedFieldsWithMeta(cfg.collection)) IN
  IF GuardHit(frame.headers) THEN [frame EXCEPT !.pc = "return"]
  ELSE IF ~cfg.localization THEN [frame EXCEPT !.pc = "return"]
  ELSE IF Len(fields) = 0 THEN [frame EXCEPT !.pc = "return"]
  ELSE IF GateClosed(frame.doc) THEN [frame EXCEPT !.pc = "return"]
  ELSE IF localizedView(getByPath(frame.doc, fields[1]))
    THEN [frame EXCEPT !.pc = "findByID", !.calls = @ + 1]
    ELSE Proceed(frame, frame.doc)

\* the end of one loop iteration: the next LLM call, or the return after the loop
Advance(frame) ==
  IF frame.i < Len(frame.toFill)
    THEN [frame EXCEPT !.pc = "llm", !.i = @ + 1, !.proposed = <<>>, !.patch = <<>>,
                       !.calls = @ + 1]
    ELSE [frame EXCEPT !.pc = "return", !.proposed = <<>>, !.patch = <<>>]

\* a catch block that gives the pass up instead of going on with the loop
Caught_Abort(frame) == [frame EXCEPT !.pc = "return", !.proposed = <<>>, !.patch = <<>>]

\* the catch block of lines 447-452: the failure is logged and the loop goes on
Caught(frame) == Advance(frame)

\* (result?.[f] ?? '').toString()
Proposed(result, f) ==
  IF f \in DOMAIN result /\ result[f] # <<>> THEN result[f][1] ELSE <<>>

\* the local `proposed` of each field of the current work item
ProposedFor(frame, result) ==
  [f \in SeqToSet(frame.toFill[frame.i].fieldsMissing) |-> Proposed(result, f)]

\* a patch that takes over every key of the LLM result
BuildPatch_AllKeys(frame, result) ==
  [f \in SeqToSet(frame.toFill[frame.i].fieldsMissing) \cup DOMAIN result |->
     Str(Proposed(result, f))]

\* the patch of lines 399-424 for the current work item
BuildPatch(frame, result) ==
  LET found == detectLocalizedFieldsWithMeta(cfg.collection)
      missing == frame.toFill[frame.i].fieldsMissing
  IN [f \in SeqToSet(missing) |->
        LET proposed == Proposed(result, f)
            richTextMeta == frame.structs[f]
        IN IF MetaType(found, f) = "richText" /\ richTextMeta.type = "lexical"
             THEN translateLexicalContent(richTextMeta.structure, proposed)
           ELSE IF MetaType(found, f) = "richText" /\ richTextMeta.type = "slate"
             THEN translateSlateContent(richTextMeta.structure, proposed)
           ELSE Str(proposed)]

\* a replacement that works on the source structure itself
SourceAfter_InPlace(source, reinjected) == reinjected

\* what a source structure holds after its reinjection: the text is replaced in
\* a deep copy (lines 132 and 165), so the source keeps its nodes
SourceAfter(source, reinjected) == source

\* the invocation's retained structures and documents after the patch was
\* built: a retained structure is the object at the source locale of the
\* all-locale document, which is the hook's argument unless it was fetched
Retain(frame, patch) ==
  LET hit == IF cfg.hook = "collection"
               THEN {f \in SeqToSet(frame.toFill[frame.i].fieldsMissing) :
                       frame.structs[f].type # ""}
               ELSE {}
      after(f) == SourceAfter(frame.structs[f].structure, patch[f])
      docAll == [frame.docAll EXCEPT !.props =
                   [f \in DOMAIN @ |->
                      IF f \in hit THEN LocMap([@[f].m EXCEPT ![frame.src] = after(f)])
                      ELSE @[f]]]
  IN IF hit = {} THEN frame
     ELSE [frame EXCEPT
             !.structs = [f \in DOMAIN @ |->
                            IF f \in hit THEN [@[f] EXCEPT !.structure = after(f)] ELSE @[f]],
             !.docAll = docAll,
             !.doc = IF frame.fetched THEN @ ELSE docAll]

\* a loop body that issues the write in dry-run mode too
AfterPatch_IgnoreDryRun(frame, patch) ==
  IF DOMAIN patch = {} THEN Advance(frame)
  ELSE [frame EXCEPT !.pc = "update", !.patch = patch, !.calls = @ + 1]

\* a loop body that goes on to the next locale without the write
AfterPatch_NoWrite(frame, patch) == Advance(frame)

\* lines 426-445: dry run logs and goes on, otherwise the write is issued
AfterPatch(frame, patch) ==
  IF DOMAIN patch = {} THEN Advance(frame)
  ELSE IF cfg.dryRun THEN Advance(frame)
  ELSE [frame EXCEPT !.pc = "update", !.patch = patch, !.calls = @ + 1]

\* ---------------------------------------------------------------- the hook of src/hooks/aiLocalize.ts
\* what toString() gives for an object that is not an array
ObjectText == <<"[", "o", "b", "j", "e", "c", "t", " ", "O", "b", "j", "e", "c", "t", "]">>

RECURSIVE JoinedItems(_)
JoinedItems(items) ==
  IF items = <<>> THEN <<>>
  ELSE IF Len(items) = 1 THEN ObjectText
  ELSE ObjectText \o <<",">> \o JoinedItems(Tail(items))

\* (v ?? '').toString()
toString(v) ==
  IF IsNullish(v) THEN <<>>
  ELSE IF IsString(v) THEN v.s
  ELSE IF IsArray(v) THEN JoinedItems(v.items)
  ELSE ObjectText

\* config.sourceLocale || localesCfg.defaultLocale || 'en'
sourceLocale ==
  IF cfg.sourceLocale # "" THEN cfg.sourceLocale
  ELSE IF cfg.defaultLocale # "" THEN cfg.defaultLocale ELSE "en"

\* the target list the hook computes on entry
targetLocales ==
  IF Len(cfg.targetLocales) > 0 THEN cfg.targetLocales ELSE Filter(allLocales, sourceLocale)

\* typeof doc?.[config.fields[0]] === 'string'
isLocalizedView(doc) == IsString(getByPath(doc, cfg.fields[1]))

\* the values of the configured fields in one locale of an all-locale document
testValues(doc, locale) ==
  [f \in SeqToSet(cfg.fields) |->
     LET v == getByPath(doc, f)
     IN IF IsObject(v) THEN toString(AtLocale(v, locale)) ELSE <<>>]

\* Object.values(values).some((s) => (s || '').trim().length > 0)
hasContent(values) == \E f \in DOMAIN values : NonBlank(values[f])

\* the first locale of the list whose values have content, "" when none has
RECURSIVE FirstWithContent(_, _)
FirstWithContent(doc, locales) ==
  IF locales = <<>> THEN ""
  ELSE IF hasContent(testValues(doc, Head(locales))) THEN Head(locales)
  ELSE FirstWithContent(doc, Tail(locales))

\* the locale the source text is taken from
LegacySourceLocale(frame) ==
  IF isLocalizedView(frame.doc)
    THEN IF frame.locale # "" THEN frame.locale ELSE sourceLocale
  ELSE IF hasContent(testValues(frame.doc, sourceLocale)) THEN sourceLocale
  ELSE IF FirstWithContent(frame.doc, allLocales) # "" THEN FirstWithContent(frame.doc, allLocales)
  ELSE sourceLocale

LegacySourceValues(frame) ==
  IF isLocalizedView(frame.doc)
    THEN [f \in SeqToSet(cfg.fields) |-> toString(getByPath(frame.doc, f))]
    ELSE testValues(frame.doc, LegacySourceLocale(frame))

\* val of line 210 and the test of line 211
LegacyMissing(doc, f, locale) ==
  LET v == getByPath(doc, f)
      val == IF IsObject(v) THEN AtLocale(v, locale) ELSE Str(<<>>)
  IN IsNullish(val) \/ ~NonBlank(toString(val))

LegacyFieldsMissing(doc, locale) ==
  SelectSeq(cfg.fields, LAMBDA f : LegacyMissing(doc, f, locale))

RECURSIVE LegacyToFill(_, _)
LegacyToFill(doc, locales) ==
  IF locales = <<>> THEN <<>>
  ELSE LET missing == LegacyFieldsMissing(doc, Head(locales))
           rest == LegacyToFill(doc, Tail(locales))
       IN IF Len(missing) > 0
            THEN <<[locale |-> Head(locales), fieldsMissing |-> missing]>> \o rest
            ELSE rest

\* the handler from its entry to its first LLM call or its return
LegacyEntry(frame) ==
  IF GuardHit(frame.headers) THEN [frame EXCEPT !.pc = "return"]
  ELSE IF ~cfg.localization THEN [frame EXCEPT !.pc = "return"]
  ELSE IF GateClosed(frame.doc) THEN [frame EXCEPT !.pc = "return"]
  ELSE LET src == LegacySourceLocale(frame)
           sv == LegacySourceValues(frame)
           fill == LegacyToFill(frame.doc, Filter(allLocales, src))
           base == [frame EXCEPT !.planned = TRUE, !.src = src, !.sourceValues = sv]
       IN IF ~hasContent(sv) THEN [base EXCEPT !.pc = "return"]
          ELSE IF fill = <<>> THEN [base EXCEPT !.pc = "return"]
          ELSE [base EXCEPT !.pc = "llm", !.toFill = fill, !.i = 1, !.calls = @ + 1]

\* the patch of lines 244-249 for the current work item
LegacyPatch(frame, result) ==
  [f \in SeqToSet(frame.toFill[frame.i].fieldsMissing) |-> Str(Proposed(result, f))]

\* ---------------------------------------------------------------- the registered hook
\* the hook the collection has in hooks.afterChange
afterChange(frame) ==
  IF cfg.hook = "legacy" THEN LegacyEntry(frame) ELSE HookEntry(frame)

\* the patch the registered hook builds from the LLM result
PatchOf(frame, result) ==
  IF cfg.hook = "legacy" THEN LegacyPatch(frame, result) ELSE BuildPatch(frame, result)

\* ---------------------------------------------------------------- inputs
Locales == <<"en", "de", "fr">>
MoreLocales == <<"en", "de", "fr", "it">>
LocaleSet == SeqToSet(MoreLocales)

Hi == <<"H", "i">>
Tr == <<"T", "r">>

\* a collection with two localized text fields and two fields the walker skips
LocalizedCollection ==
  << Field("title", TRUE, "text"),
     Field("slug", FALSE, "text"),
     Field("publishedAt", TRUE, "date"),
     Field("body", TRUE, "richText") >>

\* a collection without localized text fields
UnlocalizedCollection ==
  << Field("key", FALSE, "text"), Field("sentAt", FALSE, "date") >>

LexHi == Obj(<<Elem("root", <<Elem("paragraph", <<TextNode(Hi)>>)>>)>>)
LexBlank == Obj(<<Elem("root", <<Elem("paragraph", <<TextNode(<<SP>>), Bare("linebreak")>>)>>)>>)
SlateHi == Arr(<<Elem("paragraph", <<Leaf(Hi)>>)>>)
SlateBlank == Arr(<<Elem("paragraph", <<Leaf(<<>>)>>)>>)
\* documents with several text nodes at different depths, with a text node that
\* has no text attribute and a node of another type that has one
LexTwo ==
  Obj(<<Elem("root",
          <<Elem("paragraph",
               <<TextNode(Hi), Bare("linebreak"), Elem("link", <<TextNode(Hi)>>), Bare("text")>>),
            Elem("code", <<[type |-> "code-highlight", text |-> <<Hi>>, children |-> <<>>]>>)>>)>>)
SlateTwo ==
  Arr(<<Elem("paragraph", <<Leaf(Hi), Elem("link", <<Leaf(Hi)>>)>>),
        Elem("paragraph", <<Leaf(<<>>)>>),
        Bare("upload")>>)
\* documents whose text has leading and trailing whitespace and runs of newlines
SlateGaps ==
  Arr(<<Elem("paragraph", <<Leaf(<<SP>> \o Hi)>>),
        Elem("paragraph", <<Leaf(<<>>)>>),
        Elem("paragraph", <<>>),
        Bare("upload"),
        Elem("paragraph", <<Leaf(Hi), Elem("link", <<Leaf(Hi)>>), Leaf(<<NL>>)>>)>>)
LexBreaks ==
  Obj(<<Elem("root",
          <<Elem("paragraph",
               <<Bare("linebreak"), TextNode(Hi), Bare("linebreak"), Bare("linebreak"),
                 Bare("linebreak"), Bare("linebreak"), Elem("link", <<TextNode(Hi)>>),
                 TextNode(Hi)>>),
            Elem("paragraph", <<TextNode(<<SP>>)>>)>>)>>)
UntypedArray == Arr(<<Leaf(Hi)>>)
PlainObject == Obj(<<>>)

TextValues == {Null, Str(<<>>), Str(<<SP>>), Str(Hi)}
RichTextValues ==
  {Null, Str(Hi), Arr(<<>>), LexHi, LexBlank, SlateHi, SlateBlank, UntypedArray, PlainObject}

\* what another actor's edit stores in a field: nothing, or ordinary content
ValuesOf(f) == IF f = "body" THEN {Null, SlateHi} ELSE {Null, Str(Hi)}

\* hook tells which of the two hooks is registered; fields is <<>> and
\* skipIfSlateTarget "unset" when the registration leaves the option out
DefaultConfig ==
  [hook |-> "collection", localization |-> TRUE, locales |-> Locales, defaultLocale |-> "de",
   collection |-> LocalizedCollection, fields |-> <<>>, sourceLocale |-> "",
   targetLocales |-> <<>>, guardFlagField |-> "", dryRun |-> FALSE,
   skipIfSlateTarget |-> "unset"]

\* the registrations considered: the default one and its variations
Configs ==
  { DefaultConfig,
    [DefaultConfig EXCEPT !.localization = FALSE],
    [DefaultConfig EXCEPT !.collection = UnlocalizedCollection],
    [DefaultConfig EXCEPT !.sourceLocale = "de"],
    [DefaultConfig EXCEPT !.targetLocales = <<"fr", "en">>],
    [DefaultConfig EXCEPT !.sourceLocale = "de", !.targetLocales = <<"fr", "en">>],
    [DefaultConfig EXCEPT !.guardFlagField = "autoLocalize"],
    [DefaultConfig EXCEPT !.dryRun = TRUE] }

Record(title, body, gate) ==
  [props |-> [f \in {"title", "body"} |-> IF f = "title" THEN title ELSE body], gate |-> gate]

Cells(en, de, fr) ==
  [l \in LocaleSet |-> IF l = "en" THEN en ELSE IF l = "de" THEN de ELSE IF l = "fr" THEN fr ELSE Null]

\* records whose fields are empty or hold ordinary content
BaseRecords ==
  { Record(Cells(te, td, tf), Cells(be, bd, bf), g) :
      te \in {Null, Str(Hi)}, td \in {Null, Str(Hi)}, tf \in {Null},
      be \in {Null, LexHi}, bd \in {Null, LexHi}, bf \in {Null},
      g \in {"absent", "true", "false"} }
  \cup { Record(Cells(Str(Hi), Str(Hi), Str(Hi)), Cells(LexHi, LexHi, LexHi), g) :
      g \in {"absent", "true", "false"} }

\* records with one field of one locale holding a value of another shape
ShapedRecords ==
  { Record(Cells(Str(Hi), t, Null), Cells(LexHi, Null, Null), "absent") : t \in TextValues }
  \cup { Record(Cells(Str(Hi), Null, Null), Cells(LexHi, b, Null), "absent") : b \in RichTextValues }
  \cup { Record(Cells(Null, Null, Null), Cells(b, Null, Null), "absent") : b \in RichTextValues }

\* the records every registration is run on
CoreRecords ==
  { Record(Cells(te, td, tf), Cells(be, bd, bf), g) :
      g \in {"absent", "true", "false"},
      <<te, td, tf, be, bd, bf>> \in
        { <<Null, Null, Null, Null, Null, Null>>,
          <<Str(Hi), Null, Null, LexHi, Null, Null>>,
          <<Str(Hi), Null, Null, Null, LexHi, Null>>,
          <<Null, Str(Hi), Null, LexHi, LexHi, Null>>,
          <<Null, Str(Hi), Null, Null, LexHi, Null>>,
          <<Str(Hi), Str(Hi), Str(Hi), LexHi, LexHi, LexHi>> } }

Scenarios ==
  { <<c, r>> \in Configs \X CoreRecords : c.guardFlagField = "" => r.gate = "absent" }
  \cup { <<[DefaultConfig EXCEPT !.locales = MoreLocales],
           Record(Cells(Str(Hi), Null, Null), Cells(LexHi, Null, Null), "absent")>>,
         <<DefaultConfig,
           Record(Cells(Str(Hi), Null, Null), Cells(Null, LexHi, LexHi), "absent")>>,
         <<[DefaultConfig EXCEPT !.fields = <<"title">>],
           Record(Cells(Str(Hi), Null, Null), Cells(LexHi, Null, Null), "absent")>> }

\* what the LLM client can resolve to for a request: every key translated, every
\* key the empty string, or an object without the keys
LLMResults ==
  { [f \in {"title", "body", "slug"} |-> <<Tr>>],
    [f \in {"title", "body"} |-> <<<<>>>>],
    [f \in {} |-> <<>>] }

\* the ways callJSONModel rejects
LLMFailures == {"status", "abort", "empty", "parse"}

ZeroCount == [l \in LocaleSet |-> 0]
NoPatches == [l \in LocaleSet |-> <<>>]
NoFailures == [llm |-> {}, write |-> {}]

\* ---------------------------------------------------------------- state machine
\* a field value that holds text: a non-blank string, or a Slate or Lexical
\* document with a text node that is not blank (in a Lexical document the text
\* nodes are the nodes of type 'text')
RECURSIVE NodesHaveText(_, _)
NodesHaveText(nodes, dialect) ==
  \E i \in 1..Len(nodes) :
    \/ /\ nodes[i].text # <<>>
       /\ dialect = "lexical" => nodes[i].type = "text"
       /\ \E j \in 1..Len(nodes[i].text[1]) : nodes[i].text[1][j] \notin Whitespace
    \/ nodes[i].children # <<>> /\ NodesHaveText(nodes[i].children[1], dialect)

HasText(val) ==
  \/ val.k = "str" /\ \E j \in 1..Len(val.s) : val.s[j] \notin Whitespace
  \/ val.k = "arr" /\ (\A i \in 1..Len(val.items) : val.items[i].type # "") /\ NodesHaveText(val.items, "slate")
  \/ val.k = "obj" /\ val.root # <<>> /\ val.root[1].type = "root" /\ NodesHaveText(val.root, "lexical")

\* hist.filled: the pass that just returned made every LLM call and write it
\* attempted, wrote at least once, and left text in every tracked field of every
\* target locale. hist.second: the running pass directly follows such a pass.
\* hist.complete: when the running pass began, every tracked field of every
\* configured locale held text. hist.empty: when it began, none did.
\* hist.retry: the locales whose LLM call or write failed in the last unguarded
\* pass and that still have a tracked field without text, when the record has
\* not been edited since; kept only in the behaviours that start with hist.log.
\* hist.foreign: the <<locale, field>> pairs another actor stored content in
\* after the running pass took its record and before the pass wrote that locale.
NoHistory ==
  [filled |-> FALSE, second |-> FALSE, complete |-> FALSE, empty |-> FALSE,
   log |-> FALSE, retry |-> {}, foreign |-> {}]

FilledIn(st, locales) ==
  \A l \in locales :
    \A f \in SeqToSet(FieldPaths(detectLocalizedFieldsWithMeta(cfg.collection))) :
      f \in DOMAIN st.props /\ HasText(st.props[f][l])

NoText(st, locales) ==
  \A l \in locales :
    \A f \in SeqToSet(FieldPaths(detectLocalizedFieldsWithMeta(cfg.collection))) :
      f \in DOMAIN st.props => ~HasText(st.props[f][l])

Top == stack[Len(stack)]
SetTop(frame) == [stack EXCEPT ![Len(stack)] = frame]
CurrentLocale(frame) == frame.toFill[frame.i].locale

\* the counters after the top-level event's invocations moved to `frame`
CountLLM(frame) ==
  IF frame.pc = "llm" THEN [llmCalls EXCEPT ![CurrentLocale(frame)] = @ + 1] ELSE llmCalls
CountWrite(frame) ==
  IF frame.pc = "update" THEN [writes EXCEPT ![CurrentLocale(frame)] = @ + 1] ELSE writes

Init ==
  /\ \E sc \in Scenarios : cfg = sc[1] /\ store = sc[2]
  /\ stack = <<>>
  /\ llmCalls = ZeroCount
  /\ writes = ZeroCount
  /\ reads = 0
  /\ failed = NoFailures
  /\ applied = NoPatches
  /\ hist = NoHistory
  /\ edits = 0

\* the host fires a change event: headers are its request's headers, shape
\* tells whether the document is the all-locale record or scoped to `locale`
ChangeEvent(headers, shape, locale) ==
  /\ stack = <<>>
  /\ LET doc == IF shape = "all" THEN AllLocaleDoc(store) ELSE ScopedDoc(store, locale)
         frame == afterChange(NewFrame(headers, shape, IF shape = "all" THEN "all" ELSE locale, doc))
     IN /\ stack' = <<frame>>
        /\ llmCalls' = CountLLM(frame)
        /\ reads' = IF frame.pc = "findByID" THEN reads + 1 ELSE reads
  /\ hist' = [filled |-> FALSE, second |-> hist.filled /\ headers = NoHeaders,
              complete |-> FilledIn(store, SeqToSet(cfg.locales)),
              empty |-> NoText(store, SeqToSet(cfg.locales)),
              log |-> hist.log, retry |-> hist.retry, foreign |-> {}]
  /\ UNCHANGED <<cfg, store, writes, failed, applied, edits>>

\* findByID resolves with the all-locale record
FindByIDResolve ==
  /\ stack # <<>> /\ Top.pc = "findByID"
  /\ LET frame == Proceed([Top EXCEPT !.fetched = TRUE], AllLocaleDoc(store))
     IN /\ stack' = SetTop(frame)
        /\ llmCalls' = CountLLM(frame)
  /\ UNCHANGED <<cfg, store, writes, reads, failed, applied, hist, edits>>

\* findByID rejects: the await at line 315 is outside every try block
FindByIDReject ==
  /\ stack # <<>> /\ Top.pc = "findByID"
  /\ stack' = SetTop([Top EXCEPT !.pc = "throw"])
  /\ UNCHANGED <<cfg, store, llmCalls, writes, reads, failed, applied, hist, edits>>

\* callJSONModel resolves with a parsed object
LLMResolve(result) ==
  /\ stack # <<>> /\ Top.pc = "llm"
  /\ LET patch == PatchOf(Top, result)
         frame == AfterPatch(Retain([Top EXCEPT !.proposed = ProposedFor(Top, result)], patch),
                             patch)
     IN /\ stack' = SetTop(frame)
        /\ llmCalls' = CountLLM(frame)
        /\ writes' = CountWrite(frame)
  /\ UNCHANGED <<cfg, store, reads, failed, applied, hist, edits>>

\* callJSONModel rejects; the catch block logs and the loop goes on
LLMReject(why) ==
  /\ stack # <<>> /\ Top.pc = "llm"
  /\ LET frame == Caught(Top)
     IN /\ stack' = SetTop(frame)
        /\ llmCalls' = CountLLM(frame)
  /\ failed' = [failed EXCEPT !.llm = @ \cup {CurrentLocale(Top)}]
  /\ UNCHANGED <<cfg, store, writes, reads, applied, hist, edits>>

\* the store applies the write and the host fires the change event of that
\* write, with the request the write passed, before update() settles
UpdateApply ==
  /\ stack # <<>> /\ Top.pc = "update"
  /\ Len(stack) < MaxDepth
  /\ LET locale == CurrentLocale(Top)
         st == ApplyPatch(store, locale, Top.patch)
         nested == afterChange(NewFrame(WriteHeaders(Top.headers), "scoped", locale, ScopedDoc(st, locale)))
     IN /\ store' = st
        /\ applied' = [applied EXCEPT ![locale] = Top.patch]
        /\ stack' = Append(SetTop([Top EXCEPT !.pc = "updating"]), nested)
        /\ llmCalls' = CountLLM(nested)
        /\ reads' = IF nested.pc = "findByID" THEN reads + 1 ELSE reads
  /\ UNCHANGED <<cfg, writes, failed, hist, edits>>

\* the store rejects the write; the catch block logs and the loop goes on
UpdateReject ==
  /\ stack # <<>> /\ Top.pc = "update"
  /\ LET frame == Caught(Top)
     IN /\ stack' = SetTop(frame)
        /\ llmCalls' = CountLLM(frame)
  /\ failed' = [failed EXCEPT !.write = @ \cup {CurrentLocale(Top)}]
  /\ UNCHANGED <<cfg, store, writes, reads, applied, hist, edits>>

\* an invocation ends: the host gets the document back, or the exception. A
\* nested invocation ends inside update(), which then settles in the caller.
Return ==
  /\ stack # <<>> /\ Top.pc \in {"return", "throw"}
  /\ IF Len(stack) = 1
       THEN /\ stack' = <<>>
            /\ hist' = [NoHistory EXCEPT !.filled =
                          /\ Top.pc = "return" /\ Top.planned
                          /\ failed = NoFailures
                          /\ \E l \in LocaleSet : applied[l] # <<>>
                          /\ FilledIn(store, SeqToSet(requestedTargets) \ {Top.src}),
                        !.log = hist.log,
                        !.retry = IF ~hist.log THEN {}
                                  ELSE IF Top.headers # NoHeaders THEN hist.retry
                                  ELSE { l \in failed.llm \cup failed.write :
                                           ~FilledIn(store, {l}) }]
            /\ llmCalls' = ZeroCount /\ writes' = ZeroCount /\ reads' = 0
            /\ failed' = NoFailures /\ applied' = NoPatches
       ELSE LET caller == stack[Len(stack) - 1]
                frame == IF Top.pc = "throw" THEN Caught(caller) ELSE Advance(caller)
            IN /\ stack' = [SubSeq(stack, 1, Len(stack) - 1) EXCEPT ![Len(stack) - 1] = frame]
               /\ llmCalls' = CountLLM(frame)
               /\ failed' = IF Top.pc = "throw"
                              THEN [failed EXCEPT !.write = @ \cup {CurrentLocale(caller)}]
                              ELSE failed
               /\ UNCHANGED <<hist, writes, reads, applied>>
  /\ UNCHANGED <<cfg, store, edits>>

\* another actor, editing in the framework's default locale, stores a value in
\* one field
Edit(f, locale, val) ==
  /\ stack = <<>>
  /\ edits < MaxEdits
  /\ store.props[f][locale] # val
  /\ store' = [store EXCEPT !.props[f][locale] = val]
  /\ edits' = edits + 1
  /\ hist' = [NoHistory EXCEPT !.log = hist.log]
  /\ UNCHANGED <<cfg, stack, llmCalls, writes, reads, failed, applied>>

Next ==
  \/ \E headers \in {NoHeaders, GuardHeaders}, shape \in {"all", "scoped"},
        locale \in SeqToSet(cfg.locales) :
       ChangeEvent(headers, shape, locale)
  \/ FindByIDResolve
  \/ FindByIDReject
  \/ \E result \in LLMResults : LLMResolve(result)
  \/ \E why \in LLMFailures : LLMReject(why)
  \/ UpdateApply
  \/ UpdateReject
  \/ Return
  \/ \E f \in FieldNames : \E val \in ValuesOf(f) : Edit(f, cfg.defaultLocale, val)

Spec == Init /\ [][Next]_vars

\* Every awaited call settles (the LLM call at its timeout at the latest) and the
\* continuation then runs, so a running invocation always takes its next step.
HookStep ==
  \/ Return
  \/ FindByIDReject
  \/ FindByIDResolve
  \/ \E why \in LLMFailures : LLMReject(why)
  \/ \E result \in LLMResults : LLMResolve(result)
  \/ UpdateReject
  \/ UpdateApply

\* the scenarios of the termination property: the default registration on a record
\* with content in one locale, in two locales, and in none
FairScenarios ==
  { <<DefaultConfig, Record(Cells(Str(Hi), Null, Null), Cells(LexHi, Null, Null), "absent")>>,
    <<DefaultConfig, Record(Cells(Str(Hi), Null, Null), Cells(Null, LexHi, Null), "absent")>>,
    <<DefaultConfig, Record(Cells(Null, Null, Null), Cells(Null, Null, Null), "absent")>> }

InitFair == Init /\ <<cfg, store>> \in FairScenarios

FairSpec == InitFair /\ [][Next]_vars /\ WF_vars(HookStep)

\* ---- two passes in a row
\* the default registration on the records every registration is run on, and a
\* registration with a target list in another order than the configured locales
RetryScenarios ==
  { <<DefaultConfig, r>> : r \in {x \in CoreRecords : x.gate = "absent"} }
  \cup { <<[DefaultConfig EXCEPT !.targetLocales = <<"fr", "en">>],
           Record(Cells(Null, Str(Hi), Null), Cells(Null, LexHi, Null), "absent")>> }

\* the failed locales of a pass are kept for the pass after it
RetryInit ==
  /\ \E sc \in RetryScenarios : cfg = sc[1] /\ store = sc[2]
  /\ stack = <<>>
  /\ llmCalls = ZeroCount
  /\ writes = ZeroCount
  /\ reads = 0
  /\ failed = NoFailures
  /\ applied = NoPatches
  /\ hist = [NoHistory EXCEPT !.log = TRUE]
  /\ edits = 0

RetrySpec == RetryInit /\ [][Next]_vars

\* ---- edits while a pass is running
\* another actor stores content in a field of a target locale after the running
\* pass took its record (lines 311-316) and before the pass wrote that locale
\* (line 436); the change event of that edit is the next ChangeEvent
ConcurrentEdit(f, locale, val) ==
  /\ stack # <<>> /\ ~(stack[1].headers = GuardHeaders) /\ stack[1].planned
  /\ locale # stack[1].src
  /\ applied[locale] = <<>>
  /\ edits < MaxEdits
  /\ store.props[f][locale] # val
  /\ store' = [store EXCEPT !.props[f][locale] = val]
  /\ edits' = edits + 1
  /\ hist' = [hist EXCEPT !.foreign = @ \cup {<<locale, f>>}]
  /\ UNCHANGED <<cfg, stack, llmCalls, writes, reads, failed, applied>>

ConcurrentNext ==
  \/ Next
  \/ \E f \in FieldNames, locale \in SeqToSet(cfg.locales) :
       \E val \in {v \in ValuesOf(f) : HasText(v)} : ConcurrentEdit(f, locale, val)

\* the default registration on a record with content in one locale and on a
\* record with content in two
ConcurrentScenarios ==
  { <<DefaultConfig, r>> :
      r \in { Record(Cells(Str(Hi), Null, Null), Cells(LexHi, Null, Null), "absent"),
               Record(Cells(Null, Str(Hi), Null), Cells(Null, LexHi, Str(Hi)), "absent") } }

ConcurrentInit ==
  /\ \E sc \in ConcurrentScenarios : cfg = sc[1] /\ store = sc[2]
  /\ stack = <<>>
  /\ llmCalls = ZeroCount
  /\ writes = ZeroCount
  /\ reads = 0
  /\ failed = NoFailures
  /\ applied = NoPatches
  /\ hist = NoHistory
  /\ edits = 0

ConcurrentSpec == ConcurrentInit /\ [][ConcurrentNext]_vars

\* ---- flattening
\* the default registration on records whose rich-text field holds a document
\* with runs of newlines, a document with nested text nodes, or a value that is
\* neither a Slate nor a Lexical document
FlattenRecords ==
  { Record(Cells(Null, Null, Null), Cells(LexBreaks, Null, Null), "absent"),
    Record(Cells(Null, Null, Null), Cells(Null, SlateGaps, LexBreaks), "absent"),
    Record(Cells(Str(Hi), Null, Null), Cells(SlateGaps, LexTwo, SlateTwo), "absent"),
    Record(Cells(Str(Hi), Null, Null), Cells(UntypedArray, PlainObject, Str(Hi)), "absent") }

FlattenInit ==
  /\ \E r \in FlattenRecords : cfg = DefaultConfig /\ store = r
  /\ stack = <<>>
  /\ llmCalls = ZeroCount
  /\ writes = ZeroCount
  /\ reads = 0
  /\ failed = NoFailures
  /\ applied = NoPatches
  /\ hist = NoHistory
  /\ edits = 0

FlattenSpec == FlattenInit /\ [][Next]_vars

\* ---- records with nothing to translate
\* the default registration on the records with ordinary content, on a record
\* whose second field is empty in every locale, on a record whose second field
\* is missing in one locale, and on a record with content in one locale only
QuietRecords ==
  { r \in BaseRecords : r.gate = "absent" }
  \cup
  { Record(Cells(Str(Hi), Str(Hi), Str(Hi)), Cells(LexHi, LexHi, LexHi), "absent"),
    Record(Cells(Str(Hi), Str(Hi), Str(Hi)), Cells(Null, Null, Null), "absent"),
    Record(Cells(Str(Hi), Str(Hi), Str(Hi)), Cells(LexHi, LexHi, Null), "absent"),
    Record(Cells(Str(Hi), Null, Null), Cells(Null, Null, Null), "absent") }

QuietInit ==
  /\ \E r \in QuietRecords : cfg = DefaultConfig /\ store = r
  /\ stack = <<>>
  /\ llmCalls = ZeroCount
  /\ writes = ZeroCount
  /\ reads = 0
  /\ failed = NoFailures
  /\ applied = NoPatches
  /\ hist = NoHistory
  /\ edits = 0

QuietSpec == QuietInit /\ [][Next]_vars

\* ---- nested schemas
\* a field with children, and a blocks field with variants
Parent(name, localized, type, children) ==
  [Field(name, localized, type) EXCEPT !.fields = <<children>>]
Blocks(name, variants) ==
  [Field(name, FALSE, "blocks") EXCEPT !.blocks = <<variants>>]
Variant(slug, children) == [slug |-> slug, fields |-> children]

\* an unnamed row, a named group and a blocks field whose variants have a field
\* of the same name
PageCollection ==
  << Parent("", FALSE, "row",
            << Field("title", TRUE, "text"),
               Parent("meta", FALSE, "group",
                      << Field("title", TRUE, "textarea"), Field("slug", FALSE, "text") >>) >>),
     Blocks("layout",
            << Variant("hero", << Field("title", TRUE, "text") >>),
               Variant("cta", << Field("title", TRUE, "richText"),
                                 Field("count", TRUE, "number") >>) >>) >>

\* a blocks field inside an unnamed row inside a localized group
NestedCollection ==
  << Parent("a", TRUE, "group",
            << Parent("", FALSE, "row",
                      << Blocks("b",
                                << Variant("x", << Field("t", TRUE, "text") >>),
                                   Variant("y", << Field("t", TRUE, "text"),
                                                   Parent("", FALSE, "collapsible",
                                                          << Field("v", FALSE, "text"),
                                                             Field("u", TRUE, "textarea") >>) >>) >>) >>) >>) >>

Schemas == {LocalizedCollection, UnlocalizedCollection, PageCollection, NestedCollection}

\* a record of a collection, as the values at the paths of its localized text
\* fields: text in 'en' at every path, nothing in the other locales
RecordOf(collection) ==
  [props |-> [f \in SeqToSet(FieldPaths(detectLocalizedFieldsWithMeta(collection))) |->
                Cells(Str(Hi), Null, Null)],
   gate |-> "absent"]

SchemasInit ==
  /\ \E c \in Schemas :
       \/ cfg = [DefaultConfig EXCEPT !.collection = c] /\ store = RecordOf(c)
       \/ /\ c = LocalizedCollection /\ cfg = DefaultConfig
          /\ store = Record(Cells(Str(Hi), Null, Null), Cells(LexHi, Null, Null), "absent")
  /\ stack = <<>>
  /\ llmCalls = ZeroCount
  /\ writes = ZeroCount
  /\ reads = 0
  /\ failed = NoFailures
  /\ applied = NoPatches
  /\ hist = NoHistory
  /\ edits = 0

SchemasSpec == SchemasInit /\ [][Next]_vars

\* ---- rich-text documents
\* the default registration on records whose source is a document with several
\* text nodes, and on the records with a value of another shape
DocumentRecords ==
  { Record(Cells(Null, Null, Null), Cells(LexTwo, Null, Null), "absent"),
    Record(Cells(Str(Hi), Null, Null), Cells(SlateTwo, Null, Null), "absent"),
    Record(Cells(Str(Hi), Null, Str(Hi)), Cells(LexTwo, SlateBlank, Null), "absent") }
  \cup ShapedRecords

DocumentsInit ==
  /\ \E r \in DocumentRecords : cfg = DefaultConfig /\ store = r
  /\ stack = <<>>
  /\ llmCalls = ZeroCount
  /\ writes = ZeroCount
  /\ reads = 0
  /\ failed = NoFailures
  /\ applied = NoPatches
  /\ hist = NoHistory
  /\ edits = 0

DocumentsSpec == DocumentsInit /\ [][Next]_vars

\* ---- both hooks
\* the registration of the hook of src/hooks/aiLocalize.ts: two text fields, 'en'
\* as the source locale
LegacyConfig ==
  [DefaultConfig EXCEPT !.hook = "legacy", !.fields = <<"title", "body">>, !.sourceLocale = "en"]

LegacyConfigs ==
  { LegacyConfig,
    [LegacyConfig EXCEPT !.dryRun = TRUE],
    [LegacyConfig EXCEPT !.targetLocales = <<"fr">>],
    [LegacyConfig EXCEPT !.guardFlagField = "autoLocalize"],
    [LegacyConfig EXCEPT !.localization = FALSE] }

\* records whose two fields are text fields
TextRecords ==
  { Record(Cells(te, td, tf), Cells(be, bd, bf), g) :
      g \in {"absent", "true", "false"},
      <<te, td, tf, be, bd, bf>> \in
        { <<Null, Null, Null, Null, Null, Null>>,
          <<Str(Hi), Null, Null, Str(Hi), Null, Null>>,
          <<Str(Hi), Str(Hi), Null, Null, Null, Null>>,
          <<Null, Str(Hi), Null, Null, Null, Null>>,
          <<Str(Hi), Null, Null, Null, Str(Hi), Null>>,
          <<Str(Hi), Str(Hi), Str(Hi), Str(Hi), Str(Hi), Str(Hi)>> } }

\* each hook under its registrations
HookScenarios ==
  { <<c, r>> \in LegacyConfigs \X TextRecords : c.guardFlagField = "" => r.gate = "absent" }
  \cup { <<c, r>> \in { DefaultConfig,
                        [DefaultConfig EXCEPT !.dryRun = TRUE],
                        [DefaultConfig EXCEPT !.guardFlagField = "autoLocalize"] } \X CoreRecords :
           c.guardFlagField = "" => r.gate = "absent" }

HooksInit ==
  /\ \E sc \in HookScenarios : cfg = sc[1] /\ store = sc[2]
  /\ stack = <<>>
  /\ llmCalls = ZeroCount
  /\ writes = ZeroCount
  /\ reads = 0
  /\ failed = NoFailures
  /\ applied = NoPatches
  /\ hist = NoHistory
  /\ edits = 0

HooksSpec == HooksInit /\ [][Next]_vars

\* ---------------------------------------------------------------- claims
Frames == {stack[i] : i \in 1..Len(stack)}
Guarded(fr) == fr.headers = GuardHeaders
NoCalls == reads = 0 /\ llmCalls = ZeroCount /\ writes = ZeroCount

\* C1 (guard correctness): an invocation whose request carries 'x-ai-localize'
\* = '1' is at its return of the document, has issued no findByID, no LLM call
\* and no update, and has neither fetched nor planned anything; while a guarded
\* top-level event runs, the event has caused no call at all.
C1_GuardedDoesNothing ==
  /\ \A fr \in Frames :
       Guarded(fr) => fr.pc = "return" /\ fr.calls = 0 /\ ~fr.fetched /\ ~fr.planned
  /\ (stack # <<>> /\ Guarded(stack[1])) => NoCalls /\ Len(stack) = 1

\* a guarded top-level event on a record an unguarded pass would work on
C1_Witness ==
  /\ Len(stack) = 1 /\ Guarded(stack[1]) /\ stack[1].pc = "return"
  /\ cfg = DefaultConfig
  /\ HasText(store.props["title"]["en"]) /\ ~HasText(store.props["title"]["de"])

\* C2 (non-recursion and termination): the change event the host fires for a
\* write-back carries the guard marker and is at its return; one change event
\* causes at most one LLM call and at most one update per locale; hook
\* invocations nest at most two deep; and every pass terminates.
C2_Bounded ==
  /\ Len(stack) <= 2
  /\ \A i \in 2..Len(stack) : Guarded(stack[i]) /\ stack[i].pc = "return"
  /\ \A l \in LocaleSet : llmCalls[l] <= 1 /\ writes[l] <= 1

C2_NonRecursive == [](C2_Bounded) /\ ((stack # <<>>) ~> (stack = <<>>))

\* the guarded change event of the second write of a pass is running
C2_Witness ==
  /\ Len(stack) = 2 /\ Guarded(stack[2]) /\ ~Guarded(stack[1])
  /\ stack[1].i = 2 /\ writes[stack[1].toFill[1].locale] = 1
  /\ writes[stack[1].toFill[2].locale] = 1

Tracked == SeqToSet(FieldPaths(detectLocalizedFieldsWithMeta(cfg.collection)))
Finished(fr) == fr.pc \in {"return", "throw"}

\* C3 (idempotence) as stated: a pass that directly follows a pass which made
\* every LLM call and write it attempted and left text in every tracked field
\* of every target locale performs no write-back.
C3_AsStated == hist.second => writes = ZeroCount

\* C3 (idempotence) as amended: when the first pass also left every tracked
\* field of the source locale with text, so that every configured locale is
\* complete, the second pass plans no work item and makes no LLM call and no
\* write-back.
C3_Idempotent ==
  (hist.second /\ hist.complete) =>
     /\ llmCalls = ZeroCount /\ writes = ZeroCount
     /\ \A fr \in Frames : fr.toFill = <<>> /\ fr.pc \notin {"llm", "update", "updating"}

\* the second pass on a complete record has read the record and is returning
C3_Witness ==
  /\ hist.second /\ hist.complete
  /\ Len(stack) = 1 /\ stack[1].planned /\ stack[1].pc = "return"

\* C4 (no exception escapes): no invocation ends in a thrown or rejected state.
C4_NoExceptionEscapes == \A fr \in Frames : fr.pc # "throw"

\* C5 (per-locale failure isolation): a locale whose LLM call failed gets no
\* write; the locales of the work list are attempted in order, whatever failed
\* before them, and the pass returns only after the last one; a patch written
\* for an earlier locale is still in the store; and a pass that reached its
\* loop never ends in an exception.
C5_FailureIsolated ==
  /\ \A l \in failed.llm : writes[l] = 0 /\ applied[l] = <<>>
  /\ \A l \in LocaleSet : \A f \in DOMAIN applied[l] : store.props[f][l] = applied[l][f]
  /\ \A fr \in Frames : fr.planned => fr.pc # "throw"
  /\ stack # <<>> =>
       LET fr == stack[1] IN
         /\ \A k \in 1..Len(fr.toFill) :
              llmCalls[fr.toFill[k].locale] = IF k <= fr.i THEN 1 ELSE 0
         /\ (Finished(fr) /\ fr.toFill # <<>>) => fr.i = Len(fr.toFill)
         /\ failed.llm \cup failed.write \subseteq {fr.toFill[k].locale : k \in 1..fr.i}

\* three targets, the LLM call of the second failed: the first and the third
\* are patched and the pass is returning
C5_Witness ==
  /\ Len(stack) = 1 /\ stack[1].pc = "return" /\ Len(stack[1].toFill) = 3
  /\ failed = [llm |-> {stack[1].toFill[2].locale}, write |-> {}]
  /\ applied[stack[1].toFill[1].locale] # <<>>
  /\ applied[stack[1].toFill[3].locale] # <<>>
  /\ applied[stack[1].toFill[2].locale] = <<>>

\* C6 (locale-scoped input is normalized): a pass on a locale-scoped document
\* scores, flattens and detects on the all-locale record it fetched.
C6_ScopedIsFetched ==
  \A fr \in Frames : (fr.shape = "scoped" /\ fr.planned) => fr.fetched

\* the source locale the stated rule selects from the per-locale scores
C7_Rule(entries) ==
  LET high == CHOOSE n \in 0..Len(FieldPaths(detectLocalizedFieldsWithMeta(cfg.collection))) :
                /\ \E i \in 1..Len(entries) : entries[i].score = n
                /\ \A i \in 1..Len(entries) : entries[i].score <= n
      first == CHOOSE i \in 1..Len(entries) :
                 /\ entries[i].score = high
                 /\ \A j \in 1..(i - 1) : entries[j].score < high
  IN IF cfg.sourceLocale # "" /\ ScorePositive(entries, cfg.sourceLocale) THEN cfg.sourceLocale
     ELSE IF high > 0 THEN entries[first].locale
     ELSE cfg.defaultLocale

\* C7 (source-locale resolution): the resolved source locale is the configured
\* source locale when its score is positive; otherwise the highest-scoring
\* locale, the earliest configured one among equals; and the framework's
\* default locale when the highest score is 0.
C7_SourceResolution ==
  \A fr \in Frames :
    fr.planned => fr.src = C7_Rule(ScoreEntries(fr.docAll, FieldPaths(detectLocalizedFieldsWithMeta(cfg.collection))))

C8_Allowed(fr) ==
  SeqToSet(IF Len(cfg.targetLocales) > 0 THEN cfg.targetLocales ELSE cfg.locales) \ {fr.src}

C8_Inv ==
  stack # <<>> =>
    /\ ~stack[1].planned => llmCalls = ZeroCount /\ writes = ZeroCount /\ applied = NoPatches
    /\ stack[1].planned =>
         \A l \in LocaleSet :
           (llmCalls[l] > 0 \/ writes[l] > 0 \/ applied[l] # <<>>) => l \in C8_Allowed(stack[1])
    /\ \A k \in 1..Len(stack[1].toFill) : stack[1].toFill[k].locale \in C8_Allowed(stack[1])

C8_Step ==
  stack # <<>> =>
    \A f \in DOMAIN store.props : \A l \in LocaleSet :
      store'.props[f][l] # store.props[f][l] =>
        /\ l = CurrentLocale(stack[1]) /\ l # stack[1].src /\ l \in C8_Allowed(stack[1])
        /\ \A g \in DOMAIN store.props : \A m \in LocaleSet \ {l} :
             store'.props[g][m] = store.props[g][m]

\* C8 (target set and source protection): the locales an LLM call or a write
\* is issued for lie in the configured target list (all configured locales
\* when the list is empty) without the resolved source locale; and a step of a
\* pass changes the stored fields of one locale only, never of the source locale.
C8_TargetsOnly == [](C8_Inv) /\ [][C8_Step]_vars

\* with targets fr and en configured and en resolved as the source, fr was
\* written and de, which misses a field, was not
C8_Witness ==
  /\ Len(stack) = 1 /\ stack[1].pc = "return"
  /\ cfg.targetLocales = <<"fr", "en">> /\ stack[1].src = "en"
  /\ applied["fr"] # <<>> /\ applied["de"] = <<>> /\ applied["en"] = <<>>
  /\ ~FilledIn(store, {"de"})

Recognized(val) == looksLikeSlate(val) \/ looksLikeLexical(val)
FlattenedBlank(val) ==
  IF looksLikeSlate(val) THEN Trim(slateToPlain(val)) = <<>> ELSE Trim(lexicalToPlain(val)) = <<>>

\* the stated rule; a string in a rich-text field counts as missing when blank
C9_Missing(val, kind) ==
  IF kind = "richText"
    THEN \/ IsNullish(val)
         \/ Recognized(val) /\ FlattenedBlank(val)
         \/ IsArray(val) /\ Len(val.items) = 0
         \/ ~IsString(val) /\ ~Recognized(val)
         \/ IsString(val) /\ Trim(val.s) = <<>>
    ELSE \/ IsNullish(val)
         \/ IsString(val) /\ Trim(val.s) = <<>>

C9_WorkItems(fr) ==
  LET found == detectLocalizedFieldsWithMeta(cfg.collection)
      targets == SelectSeq(requestedTargets, LAMBDA l : l # fr.src)
      missing(l) == SelectSeq(FieldPaths(found),
                       LAMBDA f : C9_Missing(TargetVal(fr.docAll, f, l), MetaType(found, f)))
      items == [k \in 1..Len(targets) |-> [locale |-> targets[k], fieldsMissing |-> missing(targets[k])]]
  IN SelectSeq(items, LAMBDA it : it.fieldsMissing # <<>>)

\* C9 (missing-field detection): the work list of a pass whose source has text
\* holds, for every target locale in order, the fields the stated rule calls
\* missing there, and no item for a locale that misses none.
C9_MissingDetection ==
  \A fr \in Frames :
    (fr.planned /\ \E f \in DOMAIN fr.sourceValues : NonBlank(fr.sourceValues[f]))
      => fr.toFill = C9_WorkItems(fr)

\* C10 (no-op conditions): with localization off, or no localizable text field
\* in the schema, or the configured gate field false on the document, the
\* event returns the document without a read, an LLM call or a write; with
\* every flattened source value blank, and so with every locale empty for every
\* tracked field, it returns without an LLM call or a write.
C10_NoOp ==
  stack # <<>> =>
    LET fr == stack[1] IN
      /\ ( \/ ~cfg.localization
           \/ Tracked = {}
           \/ cfg.guardFlagField # "" /\ fr.doc.gate = "false" )
           => fr.pc = "return" /\ fr.calls = 0 /\ NoCalls /\ Len(stack) = 1 /\ ~fr.planned
      /\ (fr.planned /\ \A f \in DOMAIN fr.sourceValues : ~NonBlank(fr.sourceValues[f]))
           => fr.pc = "return" /\ llmCalls = ZeroCount /\ writes = ZeroCount /\ Len(stack) = 1
      /\ hist.empty
           => fr.pc \in {"findByID", "return", "throw"} /\ llmCalls = ZeroCount /\ writes = ZeroCount

\* an unguarded event on a record that misses a translation, its gate false
C10_Witness ==
  /\ Len(stack) = 1 /\ ~Guarded(stack[1]) /\ stack[1].pc = "return"
  /\ cfg.guardFlagField # "" /\ stack[1].doc.gate = "false"
  /\ HasText(store.props["title"]["en"]) /\ ~HasText(store.props["title"]["de"])

\* C11 (legacy-format avoidance): with skipIfSlateTarget on, a write never
\* carries a rich-text field whose existing value in the target locale looks
\* like Slate.
C11_SlateTargetNotWritten ==
  \A fr \in Frames :
    (skipIfSlateTarget /\ fr.pc \in {"update", "updating"}) =>
      \A f \in DOMAIN fr.patch :
        ~( /\ MetaType(detectLocalizedFieldsWithMeta(cfg.collection), f) = "richText"
           /\ looksLikeSlate(TargetVal(fr.docAll, f, CurrentLocale(fr))) )

\* C12 (explicit field list): when the registration supplies a field list,
\* the fields that are flattened, reported missing and patched are the fields
\* of that list.
C12_ExplicitFields ==
  \A fr \in Frames :
    (cfg.fields # <<>> /\ fr.planned) =>
      /\ DOMAIN fr.sourceValues = SeqToSet(cfg.fields)
      /\ \A k \in 1..Len(fr.toFill) :
           SeqToSet(fr.toFill[k].fieldsMissing) \subseteq SeqToSet(cfg.fields)
      /\ DOMAIN fr.patch \subseteq SeqToSet(cfg.fields)

\* C13 (dry-run never writes): with dryRun configured, whichever hook is
\* registered, no update is issued or applied for any locale and no invocation
\* is at or inside an update, whatever the LLM resolves to.
C13_DryRunNeverWrites ==
  cfg.dryRun =>
    /\ writes = ZeroCount
    /\ applied = NoPatches
    /\ \A fr \in Frames : fr.pc \notin {"update", "updating"}

\* a dry-run pass returns after LLM calls that all resolved
C13_Witness ==
  /\ cfg.dryRun
  /\ Len(stack) = 1 /\ stack[1].pc = "return"
  /\ \E l \in LocaleSet : llmCalls[l] > 0
  /\ failed = NoFailures

\* the nodes with their text taken out of the text nodes: what is left is the
\* count, the nesting and the other attributes
IsTextNode(n, dialect) == IF dialect = "lexical" THEN n.type = "text" ELSE n.text # <<>>

RECURSIVE Shape(_, _)
Shape(nodes, dialect) ==
  [i \in 1..Len(nodes) |->
     [type |-> nodes[i].type,
      text |-> IF IsTextNode(nodes[i], dialect) THEN <<>> ELSE nodes[i].text,
      children |-> IF nodes[i].children = <<>> THEN <<>>
                   ELSE <<Shape(nodes[i].children[1], dialect)>>]]

\* the text attributes of the text nodes in document order
RECURSIVE TextLeaves(_, _)
TextLeaves(nodes, dialect) ==
  IF nodes = <<>> THEN <<>>
  ELSE (IF IsTextNode(Head(nodes), dialect) THEN <<Head(nodes).text>> ELSE <<>>)
       \o (IF Head(nodes).children = <<>> THEN <<>>
           ELSE TextLeaves(Head(nodes).children[1], dialect))
       \o TextLeaves(Tail(nodes), dialect)

TopNodes(val, dialect) == IF dialect = "lexical" THEN val.root ELSE val.items

\* the rich-text fields of a write that were reinjected into a source structure
Reinjected(fr) ==
  { f \in DOMAIN fr.patch :
      /\ cfg.hook = "collection"
      /\ MetaType(detectLocalizedFieldsWithMeta(cfg.collection), f) = "richText"
      /\ fr.structs[f].type \in {"lexical", "slate"} }

\* C14 (reinjection preserves shape): every rich-text value a write carries that
\* was reinjected into a Slate or Lexical source has the node count, nesting and
\* non-text attributes of that source; its first text node in document order
\* carries exactly the proposed string and every later one the empty string.
C14_ReinjectKeepsShape ==
  \A fr \in Frames :
    fr.pc \in {"update", "updating"} =>
      \A f \in Reinjected(fr) :
        LET dialect == fr.structs[f].type
            D == TopNodes(fr.structs[f].structure, dialect)
            R == TopNodes(fr.patch[f], dialect)
            leaves == TextLeaves(R, dialect)
        IN /\ fr.patch[f].k = fr.structs[f].structure.k
           /\ Shape(R, dialect) = Shape(D, dialect)
           /\ Len(leaves) = Len(TextLeaves(D, dialect))
           /\ \A i \in 1..Len(leaves) :
                leaves[i] = <<IF i = 1 THEN fr.proposed[f] ELSE <<>>>>

\* a write carries a translation reinjected into a source with several text
\* nodes, some of them nested
C14_Witness ==
  \E fr \in Frames :
    /\ fr.pc = "update"
    /\ \E f \in Reinjected(fr) :
         /\ fr.proposed[f] = Tr
         /\ Len(TextLeaves(TopNodes(fr.structs[f].structure, fr.structs[f].type),
                           fr.structs[f].type)) > 2

\* C15 (retry on next mutation): a locale whose LLM call or write failed has
\* nothing written; the next unguarded pass on the unedited record has issued an
\* LLM call for every such locale when it returns; and its request for such a
\* locale names only fields that hold no text in that locale.
C15_RetryOnNextMutation ==
  /\ \A l \in failed.llm \cup failed.write : applied[l] = <<>>
  /\ (Len(stack) = 1 /\ stack[1].headers = NoHeaders /\ stack[1].pc = "return") =>
       \A l \in hist.retry : llmCalls[l] >= 1
  /\ (Len(stack) = 1 /\ stack[1].headers = NoHeaders /\ stack[1].pc = "llm"
        /\ CurrentLocale(stack[1]) \in hist.retry) =>
       \A f \in SeqToSet(stack[1].toFill[stack[1].i].fieldsMissing) :
         ~HasText(store.props[f][CurrentLocale(stack[1])])

\* the invocation has just run the missing-field detection on an all-locale document
Detected(fr) ==
  /\ cfg.hook = "collection" /\ fr.planned
  /\ fr.shape = "all" \/ fr.fetched
  /\ (fr.pc = "llm" /\ fr.i = 1) \/ (fr.pc = "return" /\ fr.toFill = <<>>)

\* the all-locale document with field g of locale A holding val
Changed(doc, g, A, val) ==
  [doc EXCEPT !.props[g] = LocMap([doc.props[g].m EXCEPT ![A] = val])]

ChangedTo == {Null, Str(<<>>), Str(Hi), LexHi}

\* C16 (missing-field independence): on the all-locale document the detection
\* ran on, putting any value into any field of a locale A leaves the list of
\* fields reported missing in every other locale B as it is.
C16_MissingIndependent ==
  (stack # <<>> /\ Detected(Top)) =>
    LET found == detectLocalizedFieldsWithMeta(cfg.collection)
        fields == FieldPaths(found)
    IN \A B \in SeqToSet(cfg.locales) :
         LET reported == fieldsMissing(Top.docAll, found, fields, B)
         IN \A A \in SeqToSet(cfg.locales) \ {B} :
              \A g \in DOMAIN Top.docAll.props : \A val \in ChangedTo :
                fieldsMissing(Changed(Top.docAll, g, A, val), found, fields, B) = reported

\* the detection reported a field missing in a target locale while another
\* locale holds text in that field
C16_Witness ==
  /\ stack # <<>> /\ Detected(Top) /\ Top.pc = "llm"
  /\ \E k \in 1..Len(Top.toFill) : \E f \in SeqToSet(Top.toFill[k].fieldsMissing) :
       \E A \in SeqToSet(cfg.locales) \ {Top.toFill[k].locale, Top.src} :
         HasText(AtLocale(getByPath(Top.docAll, f), A))

\* C17 (gate semantics at the call site): with guardFlagField configured, an
\* event whose document does not have the gate field set to true leads to no
\* LLM call and no write.
C17_RunsOnlyWhenTrue ==
  (cfg.guardFlagField # "" /\ stack # <<>> /\ stack[1].doc.gate # "true") =>
    /\ llmCalls = ZeroCount
    /\ writes = ZeroCount
    /\ \A fr \in Frames : fr.pc \notin {"llm", "update", "updating"}

\* C18 (the hook of src/hooks/aiLocalize.ts writes back only what is missing):
\* every field of a patch it is about to write to a locale is a configured
\* field whose stored value in that locale holds no text.
C18_LegacyWritesOnlyMissing ==
  \A fr \in Frames :
    (cfg.hook = "legacy" /\ fr.pc = "update") =>
      \A f \in DOMAIN fr.patch :
        /\ f \in SeqToSet(cfg.fields)
        /\ ~HasText(store.props[f][CurrentLocale(fr)])

\* C19 (the hook of src/hooks/aiLocalize.ts honours targetLocales): with a
\* non-empty configured target list, LLM calls and writes are issued only for
\* locales of the target list the hook computes on entry.
C19_LegacyTargetsOnly ==
  (cfg.hook = "legacy" /\ Len(cfg.targetLocales) > 0) =>
    \A l \in LocaleSet :
      (llmCalls[l] > 0 \/ writes[l] > 0) => l \in SeqToSet(targetLocales)

\* a is b with some elements left out
RECURSIVE IsSubsequence(_, _)
IsSubsequence(a, b) ==
  IF a = <<>> THEN TRUE
  ELSE IF b = <<>> THEN FALSE
  ELSE IF Head(a) = Head(b) THEN IsSubsequence(Tail(a), Tail(b))
  ELSE IsSubsequence(a, Tail(b))

UnitLocale(fr, k) == fr.toFill[k].locale

\* C20 (strictly sequential processing): at most one invocation waits for an
\* LLM response; the work items follow the order of the target list; while
\* item i is worked on, every earlier item has had its one LLM call and has
\* its write applied or has failed, and no later item has had an LLM call or
\* a write.
C20_Sequential ==
  /\ Cardinality({k \in 1..Len(stack) : stack[k].pc = "llm"}) <= 1
  /\ (stack # <<>> /\ stack[1].toFill # <<>>) =>
       LET fr == stack[1] IN
       /\ IsSubsequence([k \in 1..Len(fr.toFill) |-> UnitLocale(fr, k)], requestedTargets)
       /\ \A k \in 1..Len(fr.toFill) :
            /\ k > fr.i => /\ llmCalls[UnitLocale(fr, k)] = 0
                           /\ writes[UnitLocale(fr, k)] = 0
                           /\ applied[UnitLocale(fr, k)] = <<>>
            /\ k <= fr.i => llmCalls[UnitLocale(fr, k)] = 1
            /\ (k < fr.i /\ ~cfg.dryRun) =>
                 \/ applied[UnitLocale(fr, k)] # <<>>
                 \/ UnitLocale(fr, k) \in failed.llm \cup failed.write

\* the LLM request of the second work item is in flight after the write of the
\* first one was applied
C20_Witness ==
  /\ Len(stack) = 1 /\ stack[1].pc = "llm" /\ stack[1].i = 2
  /\ applied[UnitLocale(stack[1], 1)] # <<>>
  /\ writes[UnitLocale(stack[1], 1)] = 1

\* the fields the registered hook's detection reports missing in a locale of
\* the document the invocation works on
MissingIn(fr, locale) ==
  IF cfg.hook = "legacy" THEN LegacyFieldsMissing(fr.docAll, locale)
  ELSE fieldsMissing(fr.docAll, detectLocalizedFieldsWithMeta(cfg.collection),
                     FieldPaths(detectLocalizedFieldsWithMeta(cfg.collection)), locale)

\* the paths a hook may patch: the configured fields for the hook of
\* src/hooks/aiLocalize.ts, the localized text fields of the schema otherwise
Localizable ==
  IF cfg.hook = "legacy" THEN SeqToSet(cfg.fields)
  ELSE { cfg.collection[k].name : k \in { j \in 1..Len(cfg.collection) :
           cfg.collection[j].localized /\ cfg.collection[j].type \in TextTypes } }

\* the keys of a write are exactly the fields missing in its locale
ExactKeys(fr) ==
  /\ DOMAIN fr.patch = SeqToSet(fr.toFill[fr.i].fieldsMissing)
  /\ DOMAIN fr.patch = SeqToSet(MissingIn(fr, CurrentLocale(fr)))
  /\ DOMAIN fr.patch \subseteq Localizable
  /\ \A f \in DOMAIN fr.patch : ~HasText(TargetVal(fr.docAll, f, CurrentLocale(fr)))

\* C21 (patch minimality) as stated: the keys of a write are exactly the
\* fields missing in its locale, and a key the LLM gave no text for is written
\* as the empty string.
C21_AsStated ==
  \A fr \in Frames :
    fr.pc \in {"update", "updating"} =>
      /\ ExactKeys(fr)
      /\ \A f \in DOMAIN fr.patch : fr.proposed[f] = <<>> => fr.patch[f] = Str(<<>>)

\* C21 (patch minimality) as amended: a key the LLM gave no text for is
\* written as the empty string, or, for a rich-text field with a retained
\* source structure, as that structure with every text node empty.
C21_PatchMinimal ==
  \A fr \in Frames :
    fr.pc \in {"update", "updating"} =>
      /\ ExactKeys(fr)
      /\ \A f \in DOMAIN fr.patch :
           fr.proposed[f] = <<>> =>
             IF f \in Reinjected(fr)
               THEN LET dialect == fr.structs[f].type
                        leaves == TextLeaves(TopNodes(fr.patch[f], dialect), dialect)
                    IN /\ Shape(TopNodes(fr.patch[f], dialect), dialect)
                          = Shape(TopNodes(fr.structs[f].structure, dialect), dialect)
                       /\ \A i \in 1..Len(leaves) : leaves[i] = <<<<>>>>
               ELSE fr.patch[f] = Str(<<>>)

\* a write of some but not all localizable fields whose LLM result lacked the
\* text of a requested rich-text field with a retained source structure
C21_Witness ==
  \E fr \in Frames :
    /\ fr.pc = "update"
    /\ \E f \in DOMAIN fr.patch : fr.proposed[f] = <<>> /\ f \in Reinjected(fr)
    /\ DOMAIN fr.patch # Localizable

\* C22 (stale-snapshot overwrite): a pass reads the record at most once; every
\* field of a locale that another actor stored content in between the pass's
\* read and the pass's write of that locale, and that the write carries, holds
\* the written value after the write; and a pass that is returning has written
\* every locale of its work list whose LLM call and write did not fail, with
\* exactly the fields it had found missing.
C22_StaleOverwrite ==
  /\ reads <= 1
  /\ \A p \in hist.foreign :
       (applied[p[1]] # <<>> /\ p[2] \in DOMAIN applied[p[1]]) =>
          store.props[p[2]][p[1]] = applied[p[1]][p[2]]
  /\ (Len(stack) = 1 /\ stack[1].pc = "return" /\ stack[1].planned) =>
       \A k \in 1..Len(stack[1].toFill) :
         LET item == stack[1].toFill[k]
         IN item.locale \notin failed.llm \cup failed.write =>
              /\ writes[item.locale] = 1
              /\ DOMAIN applied[item.locale] = SeqToSet(item.fieldsMissing)

\* another actor stored text in a field of a target locale that the pass had
\* read as empty, and the pass's write of that locale has replaced it
C22_Witness ==
  /\ Len(stack) = 1 /\ stack[1].pc = "return"
  /\ \E p \in hist.foreign :
       /\ applied[p[1]] # <<>> /\ p[2] \in DOMAIN applied[p[1]]
       /\ ~HasText(TargetVal(stack[1].docAll, p[2], p[1]))
       /\ store.props[p[2]][p[1]] = applied[p[1]][p[2]]
       /\ HasText(store.props[p[2]][p[1]])

\* the fields of a schema in declaration order, each with the names of its
\* named ancestors and the slugs of its variants, outermost first
RECURSIVE Declared(_, _)
RECURSIVE DeclaredIn(_, _)
DeclaredIn(variants, segs) ==
  IF variants = <<>> THEN <<>>
  ELSE Declared(Head(variants).fields, Append(segs, Head(variants).slug))
         \o DeclaredIn(Tail(variants), segs)

Declared(arr, segs) ==
  IF arr = <<>> THEN <<>>
  ELSE LET field == Head(arr)
           here == IF field.name = "" THEN segs ELSE Append(segs, field.name)
       IN <<[segs |-> here, field |-> field]>>
            \o (IF field.fields = <<>> THEN <<>> ELSE Declared(field.fields[1], here))
            \o (IF field.blocks = <<>> THEN <<>> ELSE DeclaredIn(field.blocks[1], here))
            \o Declared(Tail(arr), segs)

RECURSIVE Dotted(_)
Dotted(segs) ==
  IF Len(segs) = 1 THEN segs[1] ELSE segs[1] \o "." \o Dotted(Tail(segs))

\* the stated output of the walker
WalkerRule(collection) ==
  LET kept == SelectSeq(Declared(collection, <<>>),
                        LAMBDA e : /\ e.field.name # ""
                                   /\ e.field.localized = TRUE
                                   /\ e.field.type \in {"text", "textarea", "richText"})
  IN [i \in 1..Len(kept) |-> [path |-> Dotted(kept[i].segs), type |-> kept[i].field.type]]

\* C23 (schema walker output): the walker returns, in declaration order,
\* exactly the named localized fields of type text, textarea or richText, each
\* under the dotted path of its named ancestors, variant slugs and name; no
\* path is returned twice; and a pass plans work on returned paths only.
C23_WalkerOutput ==
  LET found == detectLocalizedFieldsWithMeta(cfg.collection) IN
  /\ found = WalkerRule(cfg.collection)
  /\ \A i, j \in 1..Len(found) : found[i].path = found[j].path => i = j
  /\ \A fr \in Frames : \A k \in 1..Len(fr.toFill) :
       SeqToSet(fr.toFill[k].fieldsMissing) \subseteq {found[i].path : i \in 1..Len(found)}

\* a pass on a collection with an unnamed row, a named group and two variants
\* with a field of the same name is writing all four paths
C23_Witness ==
  /\ cfg.collection = PageCollection
  /\ FieldPaths(detectLocalizedFieldsWithMeta(cfg.collection))
       = <<"title", "meta.title", "layout.hero.title", "layout.cta.title">>
  /\ \E fr \in Frames :
       fr.pc = "update" /\ DOMAIN fr.patch = {"title", "meta.title", "layout.hero.title", "layout.cta.title"}

\* the strings the nodes contribute, in document order
RECURSIVE Pieces(_, _)
Pieces(nodes, dialect) ==
  IF nodes = <<>> THEN <<>>
  ELSE LET n == Head(nodes)
           own == IF dialect = "slate"
                    THEN IF n.text # <<>> THEN <<n.text[1]>>
                         ELSE IF n.children # <<>> THEN Pieces(n.children[1], dialect)
                         ELSE <<>>
                    ELSE IF n.type = "text" /\ n.text # <<>> THEN <<n.text[1]>>
                         ELSE IF n.children # <<>> THEN Pieces(n.children[1], dialect)
                         ELSE IF n.type = "linebreak" THEN <<<<NL>>>>
                         ELSE <<>>
       IN own \o Pieces(Tail(nodes), dialect)

RECURSIVE Concat(_)
Concat(parts) == IF parts = <<>> THEN <<>> ELSE Head(parts) \o Concat(Tail(parts))

\* the text with a separator before every part but the first
RECURSIVE Separated(_, _)
Separated(parts, sep) ==
  IF Len(parts) <= 1 THEN Concat(parts)
  ELSE Separated(SubSeq(parts, 1, Len(parts) - 1), sep) \o sep \o parts[Len(parts)]

\* the text between the first and the last character that is not whitespace
Trimmed(s) ==
  LET solid == {i \in 1..Len(s) : s[i] \notin Whitespace}
  IN IF solid = {} THEN <<>>
     ELSE SubSeq(s, CHOOSE i \in solid : \A j \in solid : i <= j,
                    CHOOSE i \in solid : \A j \in solid : j <= i)

\* t is s with every maximal run of 3 or more newlines replaced by 2
IsCollapseOf(t, s) ==
  LET Starts(u) == {i \in 1..Len(u) : u[i] = NL /\ (i = 1 \/ u[i - 1] # NL)}
      RunAt(u, i) == CHOOSE n \in 1..Len(u) :
                       /\ \A k \in i..(i + n - 1) : u[k] = NL
                       /\ (i + n > Len(u) \/ u[i + n] # NL)
      Solid(u) == SelectSeq(u, LAMBDA c : c # NL)
      Nth(u, k) == CHOOSE i \in Starts(u) : Cardinality({j \in Starts(u) : j < i}) = k - 1
      Before(u, i) == Cardinality({j \in 1..i : u[j] # NL})
  IN /\ Solid(t) = Solid(s)
     /\ Cardinality(Starts(t)) = Cardinality(Starts(s))
     /\ \A k \in 1..Cardinality(Starts(s)) :
          /\ Before(t, Nth(t, k)) = Before(s, Nth(s, k))
          /\ RunAt(t, Nth(t, k)) = IF RunAt(s, Nth(s, k)) >= 3 THEN 2 ELSE RunAt(s, Nth(s, k))

\* the text before collapsing and trimming that the stated rule gives a value
RawText(val) ==
  IF looksLikeSlate(val)
    THEN Separated([i \in 1..Len(val.items) |-> Concat(Pieces(<<val.items[i]>>, "slate"))], <<NL>>)
  ELSE IF looksLikeLexical(val) /\ val.root[1].children # <<>>
    THEN Concat(Pieces(val.root[1].children[1], "lexical"))
  ELSE <<>>

Flattened(val) ==
  IF looksLikeSlate(val) THEN slateToPlain(val)
  ELSE IF looksLikeLexical(val) THEN lexicalToPlain(val)
  ELSE <<>>

\* C24 (flattening rule): the flattened text of every rich-text value in the
\* store, and of every rich-text source a pass has flattened, is the trimmed
\* text of some string that is the value's per-node text with every run of 3
\* or more newlines replaced by 2; the per-node text of a Slate array joins the
\* top-level nodes with one newline, that of a Lexical tree concatenates text
\* leaves and one newline per line break; any other shape flattens to the
\* empty string.
C24_FlatteningRule ==
  LET Holds(val, flat) ==
        LET cut == CollapseNewlines(RawText(val))
        IN IsCollapseOf(cut, RawText(val)) /\ flat = Trimmed(cut)
  IN /\ \A f \in FieldNames : \A l \in DOMAIN store.props[f] :
          LET val == store.props[f][l] IN
          /\ Holds(val, Flattened(val))
          /\ ~IsArray(val) => slateToPlain(val) = <<>>
          /\ ~looksLikeLexical(val) => lexicalToPlain(val) = <<>>
     /\ \A fr \in Frames :
          fr.planned =>
            \A f \in DOMAIN fr.structs :
              fr.structs[f].type # "" =>
                Holds(fr.structs[f].structure, fr.sourceValues[f])

\* a pass has flattened a Lexical source with four line breaks in a row and
\* trailing whitespace, and is asking the LLM for its translation
C24_Witness ==
  \E fr \in Frames :
    /\ fr.pc = "llm" /\ fr.planned
    /\ fr.structs["body"].structure = LexBreaks
    /\ fr.sourceValues["body"] = Hi \o <<NL, NL>> \o Hi \o Hi

\* the invocations that were running before and are running after a step
Continuing == 1..(IF Len(stack) < Len(stack') THEN Len(stack) ELSE Len(stack'))

\* every rich-text value of a write is the reinjection into the source-locale
\* value the record holds
PatchFromSource ==
  \A fr \in Frames :
    fr.pc \in {"update", "updating"} =>
      \A f \in Reinjected(fr) :
        /\ fr.structs[f].structure = store.props[f][fr.src]
        /\ fr.patch[f] =
             IF fr.structs[f].type = "lexical"
               THEN translateLexicalContent(store.props[f][fr.src], fr.proposed[f])
               ELSE translateSlateContent(store.props[f][fr.src], fr.proposed[f])

TargetsOf(fr) == SeqToSet(requestedTargets) \ {fr.src}

\* no LLM call and no write was caused, and none is pending
Quiet(fr) ==
  /\ fr.toFill = <<>> /\ fr.pc = "return"
  /\ llmCalls = ZeroCount /\ writes = ZeroCount

\* C26 (quiescence) as stated: an unguarded pass on a document in which every
\* field with non-blank source text holds text in every target locale makes no
\* LLM call and no write.
C26_AsStated ==
  (stack # <<>> /\ ~Guarded(stack[1]) /\ stack[1].planned) =>
    LET fr == stack[1] IN
      (\A l \in TargetsOf(fr) : \A f \in DOMAIN fr.sourceValues :
          NonBlank(fr.sourceValues[f]) => HasText(TargetVal(fr.docAll, f, l)))
        => Quiet(fr)

\* C26 (quiescence) as amended: an unguarded pass on a document in which every
\* tracked field holds text in every target locale makes no LLM call and no
\* write; and a field that is absent in a target locale is in that locale's work
\* item whether or not its source text is blank.
C26_Quiescent ==
  (stack # <<>> /\ ~Guarded(stack[1]) /\ stack[1].planned) =>
    LET fr == stack[1] IN
      /\ (\A l \in TargetsOf(fr) : \A f \in DOMAIN fr.sourceValues :
              HasText(TargetVal(fr.docAll, f, l)))
           => Quiet(fr)
      /\ \A k \in 1..Len(fr.toFill) : \A f \in DOMAIN fr.sourceValues :
           IsNullish(TargetVal(fr.docAll, f, fr.toFill[k].locale))
             => f \in SeqToSet(fr.toFill[k].fieldsMissing)

\* a pass on a complete record has planned and is returning with nothing done
C26_Witness ==
  /\ Len(stack) = 1 /\ ~Guarded(stack[1]) /\ stack[1].planned /\ stack[1].pc = "return"
  /\ stack[1].toFill = <<>>
  /\ \E f \in DOMAIN stack[1].sourceValues : NonBlank(stack[1].sourceValues[f])
  /\ \A l \in TargetsOf(stack[1]) : \A f \in DOMAIN stack[1].sourceValues :
       HasText(TargetVal(stack[1].docAll, f, l))
====
